---- MODULE Spec2Model ----
(***************************************************************************)
(* Papersearch: the wallpaper fingerprint index (SQLite file DB_PATH), the *)
(* indexing passes that fill it (wallpaper_tray_app.index_source threads   *)
(* and the index_zip.py script) and the matcher (find_best_match).         *)
(*                                                                         *)
(* Platform: the program is a Windows program (APPDATA, explorer.exe, the  *)
(* TranscodedWallpaper cache), so DB_PATH.unlink() on a file that some     *)
(* SQLite connection still holds open raises PermissionError.              *)
(*                                                                         *)
(* SQLite (Python sqlite3, default isolation level, rollback journal):     *)
(*   - connect() creates an empty file (no table) when none exists;        *)
(*   - the first INSERT of a connection opens a transaction and takes the  *)
(*     write lock, kept until commit(); an INSERT of another connection    *)
(*     meanwhile raises OperationalError (database is locked) once the     *)
(*     busy timeout is over;                                               *)
(*   - a reader sees committed rows only; a connection dropped without     *)
(*     commit() is rolled back.                                            *)
(***************************************************************************)
EXTENDS Integers, Sequences, FiniteSets, TLC

VARIABLES
    source,     \* WallpaperGUI.source_type / source_path (None before selection)
    settings,   \* settings.json keys source_type / source_path
    gui,        \* "uninit" (before WallpaperGUI.__init__), "ready", "quit"
    dbExists,   \* DB_PATH.exists()
    dbTable,    \* the images table exists in the file
    dbRows,     \* the committed rows of images, in rowid order
    pass,       \* the indexing passes (threads / script processes)
    mpc,        \* position of the find_best_match call in flight
    mWall,      \* wall_hash of that call
    mRows,      \* rows = cur.fetchall() of that call
    mResult,    \* what the call returned or raised
    console,    \* the last line change_source, toggle_auto or an automatic
                \* refresh wrote with WallpaperGUI.log ("" before the first)
    auto,       \* auto_var, and the auto_refresh key of settings.json
    timers      \* number of pending root.after(interval, schedule_refresh)

vars == <<source, settings, gui, dbExists, dbTable, dbRows, pass, mpc, mWall, mRows, mResult,
          console, auto, timers>>

\* the state of the console and of the auto-refresh
gvars == <<console, auto, timers>>

None == "None"
\* Python's None where a source selection / a match is expected
NoSource == [type |-> None, path |-> None]
NoMatch == [source_type |-> None, source_path |-> None, file_name |-> None]

----------------------------------------------------------------------------
(* Bounds *)
MaxPasses == 2      \* indexing passes started in one behaviour
MaxRows == 3
MaxTimers == 2        \* rows of an index handed to the matcher alone

----------------------------------------------------------------------------
(* Fingerprints: imagehash.phash with its default hash_size *)
HashSize == 8
HashBits == HashSize * HashSize

BEST_DIST_INIT == 1000000000

IMAGE_EXTS == {".jpg", ".jpeg", ".png", ".bmp", ".gif", ".webp"}

HexDigits == <<"0","1","2","3","4","5","6","7","8","9","a","b","c","d","e","f">>
UpperDigits == <<"A","B","C","D","E","F">>

IsHexChar(c) ==
    \/ \E i \in 1..16 : HexDigits[i] = c
    \/ \E i \in 1..6 : UpperDigits[i] = c

HexVal(c) ==
    IF \E i \in 1..16 : HexDigits[i] = c
    THEN (CHOOSE i \in 1..16 : HexDigits[i] = c) - 1
    ELSE (CHOOSE i \in 1..6 : UpperDigits[i] = c) + 9

NibbleBits(v) == <<(v \div 8) % 2, (v \div 4) % 2, (v \div 2) % 2, v % 2>>

\* numpy.sqrt followed by int(): the integer square root
ISqrt(n) == CHOOSE k \in 0..n : k * k <= n /\ (k + 1) * (k + 1) > n

\* str(imagehash.ImageHash): the bits, four to a lowercase hex digit
ToHex(bits) ==
    [i \in 1..(Len(bits) \div 4) |->
        HexDigits[8 * bits[4*i - 3] + 4 * bits[4*i - 2] + 2 * bits[4*i - 1] + bits[4*i] + 1]]

\* the binary digits of int(hexstr, 16), most significant first, no padding
RECURSIVE StripZeros(_)
StripZeros(bs) ==
    IF Len(bs) <= 1 THEN bs
    ELSE IF bs[1] = 0 THEN StripZeros(Tail(bs)) ELSE bs

RECURSIVE HexBits(_)
HexBits(hexstr) ==
    IF hexstr = <<>> THEN <<>>
    ELSE NibbleBits(HexVal(hexstr[1])) \o HexBits(Tail(hexstr))

PadLeft(bs, width) ==
    IF Len(bs) >= width THEN bs
    ELSE [i \in 1..width |-> IF i <= width - Len(bs) THEN 0 ELSE bs[i - (width - Len(bs))]]

\* imagehash.hex_to_hash: hash_size from the length of the string, the
\* value formatted to hash_size^2 binary digits, cut in rows of hash_size.
\* ok = FALSE is the ValueError of int() (empty string, a non-hex digit) or
\* of a ragged bit array (more digits than the width, last row short).
hex_to_hash(hexstr) ==
    LET hash_size == ISqrt(Len(hexstr) * 4)
        valid == hexstr # <<>> /\ \A i \in 1..Len(hexstr) : IsHexChar(hexstr[i])
        binary == PadLeft(StripZeros(HexBits(hexstr)), hash_size * hash_size)
    IN  IF ~valid THEN [ok |-> FALSE, bits |-> <<>>]
        ELSE IF Len(binary) % hash_size # 0 THEN [ok |-> FALSE, bits |-> <<>>]
        ELSE [ok |-> TRUE, bits |-> binary]

\* ImageHash.__sub__: TypeError unless the sizes agree, else the number of
\* differing bits
SameSize(a, b) == Len(a) = Len(b)
Hamming(a, b) == Cardinality({i \in 1..Len(a) : a[i] # b[i]})

\* the try block of the match loop: ok = FALSE stands for "except: continue"
RowDistance(wall_hash, phash_hex) ==
    LET stored_hash == hex_to_hash(phash_hex)
    IN  IF stored_hash.ok /\ SameSize(wall_hash, stored_hash.bits)
        THEN [ok |-> TRUE, dist |-> Hamming(wall_hash, stored_hash.bits)]
        ELSE [ok |-> FALSE, dist |-> 0]

MatchOf(row) ==
    [source_type |-> row.source_type, source_path |-> row.source_path,
     file_name |-> row.file_name]

\* FoldStep without "best_dist = dist": the distance stays the initial one
FoldStep_KeepsInitial(acc, row, wall_hash) ==
    LET d == RowDistance(wall_hash, row.phash)
    IN  IF ~d.ok THEN acc
        ELSE IF d.dist < acc.best_dist
             THEN [best |-> MatchOf(row), best_dist |-> acc.best_dist]
             ELSE acc

\* FoldStep with "dist <= best_dist": the last of several nearest rows wins
FoldStep_LastWins(acc, row, wall_hash) ==
    LET d == RowDistance(wall_hash, row.phash)
    IN  IF ~d.ok THEN acc
        ELSE IF d.dist <= acc.best_dist
             THEN [best |-> MatchOf(row), best_dist |-> d.dist]
             ELSE acc

\* FoldStep with "except: dist = 0" in place of "except: continue"
FoldStep_NoSkip(acc, row, wall_hash) ==
    LET d == RowDistance(wall_hash, row.phash)
    IN  IF d.dist < acc.best_dist
        THEN [best |-> MatchOf(row), best_dist |-> d.dist]
        ELSE acc

\* one iteration of "for ... in rows" on the pair (best, best_dist)
FoldStep(acc, row, wall_hash) ==
    LET d == RowDistance(wall_hash, row.phash)
    IN  IF ~d.ok THEN acc
        ELSE IF d.dist < acc.best_dist
             THEN [best |-> MatchOf(row), best_dist |-> d.dist]
             ELSE acc

RECURSIVE FoldRows(_, _, _, _)
FoldRows(rows, i, acc, wall_hash) ==
    IF i > Len(rows) THEN acc
    ELSE FoldRows(rows, i + 1, FoldStep(acc, rows[i], wall_hash), wall_hash)

\* BestOf with best initialised to the first row instead of None
BestOf_FirstRow(rows, wall_hash) ==
    FoldRows(rows, 1,
             [best |-> IF rows = <<>> THEN NoMatch ELSE MatchOf(rows[1]),
              best_dist |-> BEST_DIST_INIT], wall_hash)

\* find_best_match after the SELECT: (best, best_dist)
BestOf(rows, wall_hash) ==
    FoldRows(rows, 1, [best |-> NoMatch, best_dist |-> BEST_DIST_INIT], wall_hash)

----------------------------------------------------------------------------
(* Images and sources *)
BitsOf(ones) == [i \in 1..HashBits |-> IF i \in ones THEN 1 ELSE 0]

HashA == BitsOf({2, 4, 33})
HashB == BitsOf({1, 2, 61, 62, 63, 64})
HashC == BitsOf({2, 4, 33, 34})

\* the fingerprints the wallpaper takes
Walls == {HashA, HashB}

\* Path(name).suffix.lower() on the suffixes that occur
Lower(suffix) ==
    CASE suffix = ".PNG" -> ".png"
      [] suffix = ".JPEG" -> ".jpeg"
      [] suffix = ".JPG" -> ".jpg"
      [] suffix = ".BMP" -> ".bmp"
      [] OTHER -> suffix

Entry(name, suffix, is_file, decodes, bits) ==
    [name |-> name, suffix |-> suffix, is_file |-> is_file, decodes |-> decodes, bits |-> bits]

ZipPath == "C:/w/a.zip"
FolderPath == "C:/w/pics"
SourcePaths == {ZipPath, FolderPath}

\* a ZIP with a corrupt image, an image and a text file
ZipEntries ==
    << Entry("bad.PNG", ".PNG", TRUE, FALSE, <<>>),
       Entry("img/1.jpg", ".jpg", TRUE, TRUE, HashA),
       Entry("readme.txt", ".txt", TRUE, FALSE, <<>>) >>

\* a folder with two images and a directory named like an image
FolderEntries ==
    << Entry("sub/x.png", ".png", TRUE, TRUE, HashA),
       Entry("sub.gif", ".gif", FALSE, FALSE, <<>>),
       Entry("y.JPEG", ".JPEG", TRUE, TRUE, HashB) >>

\* Further sources, for the passes that are checked one at a time: a ZIP
\* and a folder that hold decodable images outside the allow-list, and a
\* ZIP and a folder that are gone by the time the pass opens them.
MixedZipPath == "C:/w/mixed.zip"
MixedFolderPath == "C:/w/mixed"
GoneZipPath == "E:/gone.zip"
GoneFolderPath == "E:/gone"
IndexPaths == SourcePaths \cup {MixedZipPath, MixedFolderPath, GoneZipPath, GoneFolderPath}
ZipPaths == {ZipPath, MixedZipPath, GoneZipPath}

\* a ZIP with a directory entry, an image with an upper-case extension, an
\* icon (decodable, not allow-listed) and an image in a subdirectory
MixedZipEntries ==
    << Entry("IMG/", "", FALSE, FALSE, <<>>),
       Entry("IMG/2.JPG", ".JPG", TRUE, TRUE, HashB),
       Entry("icon.ico", ".ico", TRUE, TRUE, HashC),
       Entry("a/b/deep.webp", ".webp", TRUE, TRUE, HashA) >>

\* a folder with a TIFF scan (decodable, not allow-listed) and an image
MixedFolderEntries ==
    << Entry("scan.tiff", ".tiff", TRUE, TRUE, HashC),
       Entry("Z.BMP", ".BMP", TRUE, TRUE, HashB) >>

\* ZipFile(source_path, "r") opens the archive; source_path.rglob("*")
\* needs no open
Reachable(path) == path \notin {GoneZipPath, GoneFolderPath}

\* zf.infolist() / source_path.rglob("*") of the sources, in order; rglob
\* yields nothing on a directory that is not there
Entries(path) ==
    CASE path = ZipPath -> ZipEntries
      [] path = FolderPath -> FolderEntries
      [] path = MixedZipPath -> MixedZipEntries
      [] path = MixedFolderPath -> MixedFolderEntries
      [] OTHER -> <<>>

\* is_zipfile(path_str) decides the tag of a selection
SourceOf(path) ==
    [type |-> IF path \in ZipPaths THEN "zip" ELSE "folder", path |-> path]

\* A row of images. The columns are source_type, source_path, file_name and
\* phash; pass, k and n are not columns: they record which pass inserted
\* the row, as its k-th, and (from its commit on) how many rows it inserted.
Row(source_type, source_path, file_name, phash, p, k, n) ==
    [source_type |-> source_type, source_path |-> source_path,
     file_name |-> file_name, phash |-> phash, pass |-> p, k |-> k, n |-> n]

\* the rows an undisturbed pass over a source leaves (the index a previous
\* run of the program left behind)
RowOfEntry(src, e, p, k) == Row(src.type, src.path, e.name, ToHex(e.bits), p, k, 0)

\* conn.commit() makes the rows of the transaction visible together
Committed(ins) == [j \in 1..Len(ins) |-> [ins[j] EXCEPT !.n = Len(ins)]]

Indexable(src, e) ==
    /\ src.type = "folder" => e.is_file
    /\ Lower(e.suffix) \in IMAGE_EXTS
    /\ e.decodes

RECURSIVE RowsOfEntries(_, _, _, _)
RowsOfEntries(src, es, p, k) ==
    IF es = <<>> THEN <<>>
    ELSE IF Indexable(src, Head(es))
         THEN <<RowOfEntry(src, Head(es), p, k)>> \o RowsOfEntries(src, Tail(es), p, k + 1)
         ELSE RowsOfEntries(src, Tail(es), p, k)

PreviousIndex(src) == Committed(RowsOfEntries(src, Entries(src.path), 0, 1))

----------------------------------------------------------------------------
(* State *)
Passes == 1..MaxPasses

FreePass == [pc |-> "free", kind |-> None, src |-> NoSource, i |-> 0, ins |-> <<>>]

\* a pass that is over: its thread or process is gone (a failed pass
\* keeps in i the number of rows it had inserted)
EndedPass(how) == [FreePass EXCEPT !.pc = how]

NoResult == [kind |-> "none", best |-> NoMatch, best_dist |-> 0]
Raised(what) == [kind |-> what, best |-> NoMatch, best_dist |-> 0]

Free == {t \in Passes : pass[t].pc = "free"}
NextFree == CHOOSE t \in Free : \A u \in Free : t <= u

\* connections of indexing passes that are open on DB_PATH
Connected == {t \in Passes : pass[t].pc = "loop"}

\* another connection is inside a write transaction
LockedFor(t) == \E u \in Connected \ {t} : pass[u].ins # <<>>

\* Init: a first run (no settings, no database), or a later run that finds
\* the settings and the index its previous run wrote.
Init ==
    /\ gui = "uninit"
    /\ source = NoSource
    /\ \/ /\ settings = NoSource
          /\ dbExists = FALSE /\ dbTable = FALSE /\ dbRows = <<>>
       \/ /\ settings = SourceOf(ZipPath)
          /\ dbExists = TRUE /\ dbTable = TRUE
          /\ dbRows = PreviousIndex(SourceOf(ZipPath))
    /\ pass = [t \in Passes |-> FreePass]
    /\ mpc = "idle" /\ mWall = <<>> /\ mRows = <<>> /\ mResult = NoResult
    /\ console = "" /\ auto = FALSE /\ timers = 0

----------------------------------------------------------------------------
(* The GUI: WallpaperGUI *)

\* threading.Thread(target=index_source, args=(source_type, source_path, log)).start()
StartThread(src) ==
    pass' = [pass EXCEPT ![NextFree] =
                [pc |-> "start", kind |-> "gui", src |-> src, i |-> 0, ins |-> <<>>]]

\* WallpaperGUI.__init__ with a source in the settings
GuiInit ==
    /\ gui = "uninit"
    /\ settings # NoSource
    /\ source' = settings
    /\ gui' = "ready"
    /\ IF auto
       THEN /\ console' = "Refreshing..."
            /\ timers' = timers + 1
       ELSE UNCHANGED <<console, timers>>
    /\ UNCHANGED <<settings, dbExists, dbTable, dbRows, pass, mpc, mWall, mRows, mResult, auto>>

\* WallpaperGUI.__init__ without one: first_run_setup, a ZIP or a folder chosen
first_run_setup(path) ==
    /\ gui = "uninit"
    /\ settings = NoSource
    /\ Free # {}
    /\ source' = SourceOf(path)
    /\ settings' = SourceOf(path)
    /\ StartThread(SourceOf(path))
    /\ gui' = "ready"
    /\ UNCHANGED <<dbExists, dbTable, dbRows, mpc, mWall, mRows, mResult>>
    /\ UNCHANGED gvars

\* first_run_setup, both dialogs cancelled: root.quit
first_run_cancel ==
    /\ gui = "uninit"
    /\ settings = NoSource
    /\ gui' = "quit"
    /\ UNCHANGED <<source, settings, dbExists, dbTable, dbRows, pass, mpc, mWall, mRows, mResult>>
    /\ UNCHANGED gvars

\* change_source with a ZIP or a folder chosen. DB_PATH.unlink() raises
\* PermissionError while a connection is open on the file, and the handler
\* ends there, after the settings were saved.
change_source(path) ==
    /\ gui = "ready"
    /\ Free # {}
    /\ source' = SourceOf(path)
    /\ settings' = SourceOf(path)
    /\ IF dbExists /\ Connected # {}
       THEN UNCHANGED <<dbExists, dbTable, dbRows, pass, console>>
       ELSE /\ dbExists' = FALSE
            /\ dbTable' = FALSE
            /\ dbRows' = <<>>
            /\ console' = IF dbExists THEN "Old index removed." ELSE console
            /\ StartThread(SourceOf(path))
    /\ UNCHANGED <<gui, mpc, mWall, mRows, mResult, auto, timers>>

\* change_source_cancel with the old index removed before the dialogs
change_source_cancel_RemovesFirst ==
    /\ gui = "ready"
    /\ dbExists' = FALSE
    /\ dbTable' = FALSE
    /\ dbRows' = <<>>
    /\ console' = "Change source cancelled."
    /\ UNCHANGED <<source, settings, gui, pass, mpc, mWall, mRows, mResult, auto, timers>>

\* change_source, both dialogs cancelled: the line is logged and the
\* handler returns
change_source_cancel ==
    /\ gui = "ready"
    /\ console' = "Change source cancelled."
    /\ UNCHANGED <<source, settings, gui, dbExists, dbTable, dbRows, pass,
                   mpc, mWall, mRows, mResult, auto, timers>>

\* toggle_auto, after the check box has flipped auto_var: the setting is
\* saved; when enabled, schedule_refresh refreshes and arms a timer (the
\* refresh runs on the GUI thread, where no clear can fall between its
\* exists() check and its connect, so it leaves the store as it is)
toggle_auto ==
    /\ gui = "ready"
    /\ auto' = ~auto
    /\ IF ~auto
       THEN /\ timers < MaxTimers
            /\ console' = "Refreshing..."
            /\ timers' = timers + 1
       ELSE /\ console' = "Auto-refresh DISABLED."
            /\ timers' = timers
    /\ UNCHANGED <<source, settings, gui, dbExists, dbTable, dbRows, pass,
                   mpc, mWall, mRows, mResult>>

\* a timer fires schedule_refresh: nothing when auto_var is off, else a
\* refresh and a new timer
schedule_refresh ==
    /\ gui = "ready"
    /\ timers > 0
    /\ IF auto
       THEN /\ console' = "Refreshing..."
            /\ timers' = (timers - 1) + 1
       ELSE /\ console' = console
            /\ timers' = timers - 1
    /\ UNCHANGED <<source, settings, gui, dbExists, dbTable, dbRows, pass,
                   mpc, mWall, mRows, mResult, auto>>

----------------------------------------------------------------------------
(* The script index_zip.py *)

\* main_start with an init_db that drops and creates the table
main_start_DropsTable ==
    /\ Free # {}
    /\ pass' = [pass EXCEPT ![NextFree] =
                   [pc |-> "dialog", kind |-> "script", src |-> NoSource, i |-> 0, ins |-> <<>>]]
    /\ dbExists' = TRUE
    /\ dbTable' = TRUE
    /\ dbRows' = <<>>
    /\ UNCHANGED <<source, settings, gui, mpc, mWall, mRows, mResult>>
    /\ UNCHANGED gvars

\* main: ensure_appdata, init_db, then the dialogs
main_start ==
    /\ Free # {}
    /\ pass' = [pass EXCEPT ![NextFree] =
                   [pc |-> "dialog", kind |-> "script", src |-> NoSource, i |-> 0, ins |-> <<>>]]
    /\ dbExists' = TRUE
    /\ dbTable' = TRUE
    /\ UNCHANGED <<source, settings, gui, dbRows, mpc, mWall, mRows, mResult>>
    /\ UNCHANGED gvars

main_select(t, path) ==
    /\ pass[t].pc = "dialog"
    /\ pass' = [pass EXCEPT ![t].pc = "inited", ![t].src = SourceOf(path)]
    /\ UNCHANGED <<source, settings, gui, dbExists, dbTable, dbRows, mpc, mWall, mRows, mResult>>
    /\ UNCHANGED gvars

main_cancel(t) ==
    /\ pass[t].pc = "dialog"
    /\ pass' = [pass EXCEPT ![t] = EndedPass("done")]
    /\ UNCHANGED <<source, settings, gui, dbExists, dbTable, dbRows, mpc, mWall, mRows, mResult>>
    /\ UNCHANGED gvars

----------------------------------------------------------------------------
(* An indexing pass: index_source / index_zip / index_folder *)

\* init_db(): CREATE TABLE IF NOT EXISTS, commit, close
init_db(t) ==
    /\ pass[t].pc = "start"
    /\ pass' = [pass EXCEPT ![t].pc = "inited"]
    /\ dbExists' = TRUE
    /\ dbTable' = TRUE
    /\ UNCHANGED <<source, settings, gui, dbRows, mpc, mWall, mRows, mResult>>
    /\ UNCHANGED gvars

\* conn = sqlite3.connect(DB_PATH): creates the file when it is missing
connect(t) ==
    /\ pass[t].pc = "inited"
    /\ pass' = [pass EXCEPT ![t].pc = "loop", ![t].i = 1]
    /\ dbExists' = TRUE
    /\ UNCHANGED <<source, settings, gui, dbTable, dbRows, mpc, mWall, mRows, mResult>>
    /\ UNCHANGED gvars

\* cur.execute("INSERT ...") succeeds: the table is there and no other
\* connection holds the write lock
InsertSucceeds(t) == dbTable /\ ~LockedFor(t)

\* InsertedAfter without the test of the extension
InsertedAfter_AnyExtension(t, e) ==
    LET src == pass[t].src
    IN  IF src.type = "folder" /\ ~e.is_file THEN pass[t].ins
        ELSE IF ~e.decodes THEN pass[t].ins
        ELSE IF ~InsertSucceeds(t) THEN pass[t].ins
        ELSE Append(pass[t].ins, RowOfEntry(src, e, t, Len(pass[t].ins) + 1))

\* the rows the pass has inserted after the loop body ran on entry e
InsertedAfter(t, e) ==
    LET src == pass[t].src
    IN  IF src.type = "folder" /\ ~e.is_file THEN pass[t].ins
        ELSE IF Lower(e.suffix) \notin IMAGE_EXTS THEN pass[t].ins
        ELSE IF ~e.decodes THEN pass[t].ins
        ELSE IF ~InsertSucceeds(t) THEN pass[t].ins
        ELSE Append(pass[t].ins, RowOfEntry(src, e, t, Len(pass[t].ins) + 1))

\* index_zip with "ext = Path(name).suffix", the case kept
index_zip_CaseKept(t, info) ==
    LET zip_path == pass[t].src.path
        name == info.name
        ext == info.suffix
    IN  IF ext \notin IMAGE_EXTS THEN pass[t].ins
        ELSE IF info.decodes /\ InsertSucceeds(t)
             THEN Append(pass[t].ins,
                         Row("zip", zip_path, name, ToHex(info.bits), t, Len(pass[t].ins) + 1, 0))
             ELSE pass[t].ins

\* index_zip.index_zip: the rows the pass has inserted after the loop body
\* ran on info
index_zip(t, info) ==
    LET zip_path == pass[t].src.path
        name == info.name
        ext == Lower(info.suffix)
    IN  IF ext \notin IMAGE_EXTS THEN pass[t].ins
        ELSE IF info.decodes /\ InsertSucceeds(t)
             THEN Append(pass[t].ins,
                         Row("zip", zip_path, name, ToHex(info.bits), t, Len(pass[t].ins) + 1, 0))
             ELSE pass[t].ins

\* index_zip.index_folder: the same for the loop body on path
index_folder(t, path) ==
    LET folder == pass[t].src.path
        ext == Lower(path.suffix)
        rel == path.name
    IN  IF ~path.is_file THEN pass[t].ins
        ELSE IF ext \notin IMAGE_EXTS THEN pass[t].ins
        ELSE IF path.decodes /\ InsertSucceeds(t)
             THEN Append(pass[t].ins,
                         Row("folder", folder, rel, ToHex(path.bits), t, Len(pass[t].ins) + 1, 0))
             ELSE pass[t].ins

\* the loop body of the pass: index_source in a thread of the GUI,
\* index_zip or index_folder in the script
LoopBody(t, e) ==
    IF pass[t].kind = "gui" THEN InsertedAfter(t, e)
    ELSE IF pass[t].src.type = "zip" THEN index_zip(t, e)
    ELSE index_folder(t, e)

\* VisibleAfterInsert with a commit after every INSERT
VisibleAfterInsert_AutoCommit(rows, before, after) ==
    IF after = before THEN rows ELSE Append(rows, after[Len(after)])

\* what the other connections see of the rows of images after an INSERT of
\* a pass: nothing new before conn.commit()
VisibleAfterInsert(rows, before, after) == rows

\* the last line a pass at pc has handed to the sink of its caller: log_func
\* in index_source ("Indexing <type>: <path>", "Indexing complete."), the
\* closing message box of the script; no line is written for an error
SinkLine(pc, kind) ==
    IF pc = "done" THEN "Indexing complete."
    ELSE IF kind = "gui" /\ pc \in {"loop", "failed"} THEN "Indexing"
    ELSE ""

\* the source can be opened: a folder always (rglob), a ZIP when ZipFile
\* finds it
Opens(src) == src.type = "zip" => Reachable(src.path)

\* ZipFile(source_path, "r") raises (FileNotFoundError): the exception
\* leaves index_source and ends the thread, or the script
open_fails(t) ==
    /\ pass[t].pc = "loop"
    /\ ~Opens(pass[t].src)
    /\ pass' = [pass EXCEPT ![t] = EndedPass("failed")]
    /\ UNCHANGED <<source, settings, gui, dbExists, dbTable, dbRows, mpc, mWall, mRows, mResult>>
    /\ UNCHANGED gvars

\* one iteration of the loop over zf.infolist() / source_path.rglob("*")
index_entry(t) ==
    /\ pass[t].pc = "loop"
    /\ Opens(pass[t].src)
    /\ pass[t].i <= Len(Entries(pass[t].src.path))
    /\ LET e == Entries(pass[t].src.path)[pass[t].i]
       IN  /\ pass' = [pass EXCEPT ![t].i = @ + 1, ![t].ins = LoopBody(t, e)]
           /\ dbRows' = VisibleAfterInsert(dbRows, pass[t].ins, LoopBody(t, e))
    /\ UNCHANGED <<source, settings, gui, dbExists, dbTable, mpc, mWall, mRows, mResult>>
    /\ UNCHANGED gvars

\* conn.commit(); conn.close()
commit(t) ==
    /\ pass[t].pc = "loop"
    /\ Opens(pass[t].src)
    /\ pass[t].i > Len(Entries(pass[t].src.path))
    /\ dbRows' = dbRows \o Committed(pass[t].ins)
    /\ pass' = [pass EXCEPT ![t] = EndedPass("done")]
    /\ UNCHANGED <<source, settings, gui, dbExists, dbTable, mpc, mWall, mRows, mResult>>
    /\ UNCHANGED gvars

\* abandon with the commit in a finally block: what was inserted is kept
abandon_Commits(t) ==
    /\ pass[t].pc = "loop"
    /\ dbRows' = dbRows \o Committed(pass[t].ins)
    /\ pass' = [pass EXCEPT ![t] = [EndedPass("failed") EXCEPT !.i = Len(pass[t].ins)]]
    /\ UNCHANGED <<source, settings, gui, dbExists, dbTable, mpc, mWall, mRows, mResult>>
    /\ UNCHANGED gvars

\* the pass ends without commit(): an error escapes the loop (rglob), or
\* the daemon thread dies with the process; SQLite rolls the transaction back
abandon(t) ==
    /\ pass[t].pc = "loop"
    /\ pass' = [pass EXCEPT ![t] = [EndedPass("failed") EXCEPT !.i = Len(pass[t].ins)]]
    /\ UNCHANGED <<source, settings, gui, dbExists, dbTable, dbRows, mpc, mWall, mRows, mResult>>
    /\ UNCHANGED gvars

----------------------------------------------------------------------------
(* The matcher: find_best_match, from refresh (GUI or tray thread) or from *)
(* find_wallpaper.py                                                       *)

\* what a call meets at DB_PATH: the exists() check fails, the SELECT fails
\* (a file without the images table), or the rows are read
StoreOutcome ==
    IF ~dbExists THEN "Database not found"
    ELSE IF ~dbTable THEN "no such table: images"
    ELSE "ok"

\* the two exists() checks
match_check(wallpaper) ==
    /\ mpc = "idle"
    /\ IF ~wallpaper
       THEN /\ mpc' = "returned"
            /\ mResult' = Raised("TranscodedWallpaper not found")
       ELSE IF ~dbExists
       THEN /\ mpc' = "returned"
            /\ mResult' = Raised(StoreOutcome)
       ELSE /\ mpc' = "checked"
            /\ mResult' = NoResult
    /\ UNCHANGED <<source, settings, gui, dbExists, dbTable, dbRows, pass, mWall, mRows>>
    /\ UNCHANGED gvars

\* wall_hash, connect (which creates a missing file), SELECT, fetchall,
\* close, and the loop over the rows
match_scan(wall_hash) ==
    /\ mpc = "checked"
    /\ mpc' = "returned"
    /\ mWall' = wall_hash
    /\ dbExists' = TRUE
    /\ IF ~dbExists \/ ~dbTable
       THEN /\ mResult' = Raised("no such table: images")
            /\ mRows' = <<>>
       ELSE /\ mRows' = dbRows
            /\ mResult' = [kind |-> "ok"] @@ BestOf(dbRows, wall_hash)
    /\ UNCHANGED <<source, settings, gui, dbTable, dbRows, pass>>
    /\ UNCHANGED gvars

\* refresh has logged the outcome
match_return ==
    /\ mpc = "returned"
    /\ mpc' = "idle"
    /\ mWall' = <<>>
    /\ mRows' = <<>>
    /\ mResult' = NoResult
    /\ UNCHANGED <<source, settings, gui, dbExists, dbTable, dbRows, pass>>
    /\ UNCHANGED gvars

----------------------------------------------------------------------------
Next ==
    \/ GuiInit
    \/ \E path \in SourcePaths : first_run_setup(path)
    \/ first_run_cancel
    \/ \E path \in SourcePaths : change_source(path)
    \/ main_start
    \/ \E t \in Passes, path \in SourcePaths : main_select(t, path)
    \/ \E t \in Passes : main_cancel(t)
    \/ \E t \in Passes : init_db(t)
    \/ \E t \in Passes : connect(t)
    \/ \E t \in Passes : index_entry(t)
    \/ \E t \in Passes : commit(t)
    \/ \E t \in Passes : abandon(t)
    \/ \E w \in BOOLEAN : match_check(w)
    \/ \E wall_hash \in Walls : match_scan(wall_hash)
    \/ match_return

Spec == Init /\ [][Next]_vars

----------------------------------------------------------------------------
(* The event handlers of the GUI with the auto-refresh, and the threads    *)
(* they start                                                              *)

\* Init with the auto_refresh key of a previous run
InitGui ==
    /\ gui = "uninit"
    /\ source = NoSource
    /\ \/ /\ settings = NoSource
          /\ dbExists = FALSE /\ dbTable = FALSE /\ dbRows = <<>>
          /\ auto = FALSE
       \/ /\ settings = SourceOf(ZipPath)
          /\ dbExists = TRUE /\ dbTable = TRUE
          /\ dbRows = PreviousIndex(SourceOf(ZipPath))
          /\ auto \in BOOLEAN
    /\ pass = [t \in Passes |-> FreePass]
    /\ mpc = "idle" /\ mWall = <<>> /\ mRows = <<>> /\ mResult = NoResult
    /\ console = "" /\ timers = 0

NextGui ==
    \/ GuiInit
    \/ \E path \in SourcePaths : first_run_setup(path)
    \/ first_run_cancel
    \/ \E path \in SourcePaths : change_source(path)
    \/ change_source_cancel
    \/ toggle_auto
    \/ schedule_refresh
    \/ \E t \in Passes : init_db(t)
    \/ \E t \in Passes : connect(t)
    \/ \E t \in Passes : index_entry(t)
    \/ \E t \in Passes : commit(t)

SpecGui == InitGui /\ [][NextGui]_vars

----------------------------------------------------------------------------
(* find_best_match alone, on every index of up to MaxRows rows drawn from  *)
(* well-formed and malformed stored fingerprints                           *)

Upper(c) ==
    IF \E i \in 11..16 : HexDigits[i] = c
    THEN UpperDigits[(CHOOSE i \in 11..16 : HexDigits[i] = c) - 10]
    ELSE c

StoredRow(name, phash) == Row("folder", FolderPath, name, phash, 0, 0, 0)

StoredRows ==
    { StoredRow("a.png", ToHex(HashA)),
      StoredRow("b.png", ToHex(HashA)),
      StoredRow("c.png", ToHex(HashB)),
      StoredRow("upper.png", [i \in 1..16 |-> Upper(ToHex(HashB)[i])]),
      StoredRow("long0.png", <<"0">> \o ToHex(HashC)),
      StoredRow("long1.png", <<"1">> \o ToHex(HashA)),
      StoredRow("empty.png", <<>>),
      StoredRow("nonhex.png", [ToHex(HashA) EXCEPT ![1] = "g"]),
      StoredRow("short.png", <<"0", "0", "f", "f">>) }

StoredIndexes == UNION {[1..n -> StoredRows] : n \in 0..MaxRows}

MatchWalls == {HashA, HashB, HashC}

InitMatch ==
    /\ gui = "ready"
    /\ source = SourceOf(FolderPath)
    /\ settings = SourceOf(FolderPath)
    /\ dbExists = TRUE /\ dbTable = TRUE
    /\ dbRows \in StoredIndexes
    /\ pass = [t \in Passes |-> FreePass]
    /\ mpc = "idle" /\ mWall = <<>> /\ mRows = <<>> /\ mResult = NoResult
    /\ console = "" /\ auto = FALSE /\ timers = 0

NextMatch ==
    \/ \E w \in BOOLEAN : match_check(w)
    \/ \E wall_hash \in MatchWalls : match_scan(wall_hash)
    \/ match_return

SpecMatch == InitMatch /\ [][NextMatch]_vars

----------------------------------------------------------------------------
(* find_wallpaper.py: its own copy of find_best_match *)

\* one iteration of "for ... in rows" in find_wallpaper.find_best_match
FindWallpaperStep(acc, row, wall_hash) ==
    LET stored_hash == hex_to_hash(row.phash)
    IN  IF ~stored_hash.ok \/ ~SameSize(wall_hash, stored_hash.bits) THEN acc
        ELSE LET dist == Hamming(wall_hash, stored_hash.bits)
             IN  IF dist < acc.best_dist
                 THEN [best |-> [source_type |-> row.source_type,
                                 source_path |-> row.source_path,
                                 file_name |-> row.file_name],
                       best_dist |-> dist]
                 ELSE acc

RECURSIVE FindWallpaperRows(_, _, _, _)
FindWallpaperRows(rows, i, acc, wall_hash) ==
    IF i > Len(rows) THEN acc
    ELSE FindWallpaperRows(rows, i + 1, FindWallpaperStep(acc, rows[i], wall_hash), wall_hash)

\* find_wallpaper.find_best_match on the rows it fetched
FindWallpaperBest(rows, wall_hash) ==
    FindWallpaperRows(rows, 1, [best |-> NoMatch, best_dist |-> 10 ^ 9], wall_hash)

----------------------------------------------------------------------------
(* One indexing pass alone, a thread of the GUI or the script, over each   *)
(* source and each of a few starting stores, with the matcher reading      *)

StartIndexes ==
    { <<>>,
      PreviousIndex(SourceOf(ZipPath)),
      <<StoredRow("a.png", ToHex(HashA)), StoredRow("nonhex.png", [ToHex(HashA) EXCEPT ![1] = "g"])>>,
      <<StoredRow("long1.png", <<"1">> \o ToHex(HashA)), StoredRow("c.png", ToHex(HashB)),
        StoredRow("b.png", ToHex(HashA))>> }

\* the thread change_source or first_run_setup has started for the selected
\* source (the store removed, or left by another process), or the script
\* at its dialogs, after its init_db()
InitIndex ==
    /\ gui = "ready"
    /\ \E path \in IndexPaths :
          /\ source = SourceOf(path)
          /\ settings = SourceOf(path)
          /\ \/ /\ pass = [t \in Passes |->
                            IF t = 1
                            THEN [pc |-> "start", kind |-> "gui", src |-> SourceOf(path),
                                  i |-> 0, ins |-> <<>>]
                            ELSE FreePass]
                /\ \/ dbExists = FALSE /\ dbTable = FALSE /\ dbRows = <<>>
                   \/ dbExists = TRUE /\ dbTable = TRUE /\ dbRows \in StartIndexes
             \/ /\ pass = [t \in Passes |->
                            IF t = 1
                            THEN [pc |-> "dialog", kind |-> "script", src |-> NoSource,
                                  i |-> 0, ins |-> <<>>]
                            ELSE FreePass]
                /\ dbExists = TRUE /\ dbTable = TRUE /\ dbRows \in StartIndexes
    /\ mpc = "idle" /\ mWall = <<>> /\ mRows = <<>> /\ mResult = NoResult
    /\ console = "" /\ auto = FALSE /\ timers = 0

NextIndex ==
    \/ \E t \in Passes, path \in IndexPaths : main_select(t, path)
    \/ \E t \in Passes : main_cancel(t)
    \/ \E t \in Passes : init_db(t)
    \/ \E t \in Passes : connect(t)
    \/ \E t \in Passes : open_fails(t)
    \/ \E t \in Passes : index_entry(t)
    \/ \E t \in Passes : commit(t)
    \/ \E w \in BOOLEAN : match_check(w)
    \/ \E wall_hash \in MatchWalls : match_scan(wall_hash)
    \/ match_return

SpecIndex == InitIndex /\ [][NextIndex]_vars

----------------------------------------------------------------------------
(* Properties *)

RowsOfPass(rows, p) == SelectSeq(rows, LAMBDA r : r.pass = p)

\* the rows of pass p among rows are none, or all the rows p inserted
NoneOrAllWritten(rows, p) ==
    LET mine == RowsOfPass(rows, p)
    IN  \/ mine = <<>>
        \/ /\ \A j \in 1..Len(mine) : mine[j].n = Len(mine)
           /\ {mine[j].k : j \in 1..Len(mine)} = 1..Len(mine)

\* the number of records a source holds: its allow-listed, decodable images
ImageCount(src) ==
    Cardinality({j \in 1..Len(Entries(src.path)) :
        LET e == Entries(src.path)[j]
        IN  /\ e.decodes
            /\ src.type = "zip" \/ e.is_file
            /\ \E x \in IMAGE_EXTS : x = Lower(e.suffix)})

Running == {t \in Passes : pass[t].pc \in {"start", "inited", "loop"}}

\* C1: every record of the index, and so every record find_best_match can
\* return, has the source_type and source_path of the active source
\* selection (the persisted one).
C1_NoStaleRecords ==
    \A j \in 1..Len(dbRows) :
        /\ dbRows[j].source_type = settings.type
        /\ dbRows[j].source_path = settings.path

\* C2: the rows a scan has read hold, of every indexing pass, either none
\* of its records or all the records it wrote, never a part of them.
C2_ScanSeesNoneOrAll ==
    (mpc = "returned" /\ mResult.kind = "ok") =>
        \A p \in 0..MaxPasses : NoneOrAllWritten(mRows, p)

\* C2 witness: a scan read the complete index of the previous source; by
\* the time it returns, change_source has cleared the index and the new
\* pass has inserted one of its two records, not yet committed.
C2_Witness ==
    /\ mpc = "returned" /\ mResult.kind = "ok"
    /\ mRows = PreviousIndex(SourceOf(ZipPath))
    /\ settings = SourceOf(FolderPath)
    /\ dbExists /\ dbTable /\ dbRows = <<>>
    /\ \E t \in Passes :
          /\ pass[t].pc = "loop" /\ pass[t].kind = "gui"
          /\ Len(pass[t].ins) = 1

\* C3: at most one index_source thread is running at any time.
C3_OneIndexingThread ==
    Cardinality({t \in Running : pass[t].kind = "gui"}) <= 1

\* C4: of a pass that failed before its commit, the index shows no record,
\* or all the records of its source; never a part of them.
C4_FailedPassAllOrNone ==
    \A t \in Passes :
        pass[t].pc = "failed" =>
            LET mine == RowsOfPass(dbRows, t)
            IN  \/ mine = <<>>
                \/ Len(mine) = ImageCount(SourceOf(mine[1].source_path))

\* C4 witness: a pass over the folder failed after inserting one of its two
\* records, and the index that exists shows none of it.
C4_Witness ==
    \E t \in Passes :
        /\ pass[t].pc = "failed" /\ pass[t].i = 1
        /\ dbExists /\ dbTable
        /\ RowsOfPass(dbRows, t) = <<>>

\* the rows of an index whose stored fingerprint decodes to a hash of the
\* size of the reference, stated without the match loop
Comparable(wall_hash, phash_hex) ==
    LET h == hex_to_hash(phash_hex)
    IN  h.ok /\ Len(h.bits) = Len(wall_hash)

ComparableRows(rows, wall_hash) ==
    {j \in 1..Len(rows) : Comparable(wall_hash, rows[j].phash)}

DistOfRow(rows, wall_hash, j) ==
    LET bits == hex_to_hash(rows[j].phash).bits
    IN  Cardinality({b \in 1..Len(wall_hash) : bits[b] # wall_hash[b]})

Matched == mpc = "returned" /\ mResult.kind = "ok"

\* C5: find_best_match returns a record at the minimum Hamming distance
\* over the records with a decodable fingerprint, the first such record in
\* scan order, and distance 0 when a fingerprint equals the reference.
C5_MinimumFirstSeen ==
    Matched =>
        LET D == ComparableRows(mRows, mWall)
        IN  /\ D = {} => mResult.best = NoMatch
            /\ D # {} =>
                 \E j \in D :
                    /\ mResult.best = MatchOf(mRows[j])
                    /\ mResult.best_dist = DistOfRow(mRows, mWall, j)
                    /\ \A h \in D : DistOfRow(mRows, mWall, h) >= mResult.best_dist
                    /\ \A h \in D : h < j => DistOfRow(mRows, mWall, h) > mResult.best_dist
            /\ (\E j \in D : hex_to_hash(mRows[j].phash).bits = mWall) => mResult.best_dist = 0

\* C5 witness: two records tie at the minimum, a nearer-looking malformed
\* record stands before them, and the first of the two is returned.
C5_Witness ==
    /\ Matched
    /\ Len(mRows) = 3
    /\ mRows[1].file_name = "nonhex.png"
    /\ mRows[2].file_name = "b.png"
    /\ mRows[3].file_name = "a.png"
    /\ mWall = HashC
    /\ mResult.best.file_name = "b.png"
    /\ mResult.best_dist = 1

\* C6: a pass that reaches its commit has inserted exactly one record per
\* decodable image of its source.
C6_ExactlyNRecords ==
    \A t \in Passes :
        (pass[t].pc = "loop" /\ pass[t].i > Len(Entries(pass[t].src.path))) =>
            Len(pass[t].ins) = ImageCount(pass[t].src)

\* C7: when the records of a populated store are cleared, the store is
\* left one that a scan reads as empty (no error).
C7_ClearThenScanEmpty ==
    [][(dbRows # <<>> /\ dbRows' = <<>>) => StoreOutcome' = "ok"]_vars

\* C8: on an index with no record, or with malformed fingerprints only,
\* find_best_match returns None (with the initial distance) and raises
\* nothing.
C8_EmptyIndexNoMatch ==
    (mpc = "returned" /\ mWall # <<>> /\ ComparableRows(mRows, mWall) = {}) =>
        /\ mResult.kind = "ok"
        /\ mResult.best = NoMatch
        /\ mResult.best_dist = BEST_DIST_INIT

\* C8 witness: a call on the empty store has returned.
C8_Witness ==
    /\ mpc = "returned" /\ mWall # <<>>
    /\ dbRows = <<>> /\ mRows = <<>>
    /\ mResult.kind = "ok" /\ mResult.best = NoMatch

WellFormedRows(rows, wall_hash) ==
    SelectSeq(rows, LAMBDA r : Comparable(wall_hash, r.phash))

\* C9: find_best_match returns what it returns on the index without its
\* malformed records, and never a malformed record.
C9_MalformedSkipped ==
    Matched =>
        /\ [best |-> mResult.best, best_dist |-> mResult.best_dist]
               = BestOf(WellFormedRows(mRows, mWall), mWall)
        /\ \A j \in 1..Len(mRows) :
               ~Comparable(mWall, mRows[j].phash) => mResult.best # MatchOf(mRows[j])

\* C9 witness: a match on an index that holds malformed records between
\* well-formed ones.
C9_Witness ==
    /\ Matched
    /\ Len(mRows) = 3
    /\ mRows[1].file_name = "empty.png"
    /\ mRows[2].file_name = "c.png"
    /\ mRows[3].file_name = "long1.png"
    /\ mResult.best.file_name = "c.png"

\* C10: the index never holds the same (source, entry_name, fingerprint)
\* record twice.
C10_NoDuplicateRecords ==
    \A j, h \in 1..Len(dbRows) :
        (j # h) =>
            \/ MatchOf(dbRows[j]) # MatchOf(dbRows[h])
            \/ dbRows[j].phash # dbRows[h].phash

\* the extension is one of the allow-list, compared without regard to case
AllowListed(suffix) ==
    Lower(suffix) \in {".jpg", ".jpeg", ".png", ".bmp", ".gif", ".webp"}

\* row r is the record of an allow-listed entry of source src, under the
\* name the entry has in the source
RecordOfAllowListed(r, src) ==
    /\ r.source_type = src.type
    /\ r.source_path = src.path
    /\ \E k \in 1..Len(Entries(src.path)) :
          /\ Entries(src.path)[k].name = r.file_name
          /\ AllowListed(Entries(src.path)[k].suffix)

\* C11: every record a pass inserts, and every record it has committed, is
\* the record of an entry of its source whose extension is in the
\* allow-list {jpg, jpeg, png, bmp, gif, webp}, case ignored, and bears the
\* name of that entry verbatim; the other entries leave no record.
C11_OnlyAllowListed ==
    /\ \A t \in Passes : \A j \in 1..Len(pass[t].ins) :
          RecordOfAllowListed(pass[t].ins[j], pass[t].src)
    /\ \A j \in 1..Len(dbRows) :
          dbRows[j].pass # 0 => RecordOfAllowListed(dbRows[j], SourceOf(dbRows[j].source_path))

\* C11 witness: a pass of the GUI has run over the whole mixed ZIP; it has
\* inserted IMG/2.JPG and a/b/deep.webp, and neither the directory entry
\* nor icon.ico.
C11_Witness ==
    \E t \in Passes :
        /\ pass[t].pc = "loop" /\ pass[t].kind = "gui"
        /\ pass[t].src = SourceOf(MixedZipPath)
        /\ pass[t].i > Len(MixedZipEntries)
        /\ Len(pass[t].ins) = 2
        /\ pass[t].ins[1].file_name = "IMG/2.JPG"
        /\ pass[t].ins[2].file_name = "a/b/deep.webp"

\* C12: a pass whose source cannot be opened or is not there ends with a
\* source-unavailable error at the sink of its caller and without a record
\* written; it does not end with the report of a completion.
C12_UnavailableReported ==
    [][\A t \in Passes :
          (/\ pass[t].pc = "loop"
           /\ ~Reachable(pass[t].src.path)
           /\ pass'[t].pc # "loop")
          => /\ pass'[t].pc = "failed"
             /\ SinkLine(pass'[t].pc, pass[t].kind) = "ERROR: source unavailable"
             /\ RowsOfPass(dbRows', t) = <<>>]_vars

\* C13: a pass over a reachable source that completes reports its
\* completion at the sink of its caller, and has then written as many
\* records as its source holds allow-listed entries that decode and hash.
C13_CompletesWithAllRecords ==
    [][\A t \in Passes :
          (/\ pass[t].pc = "loop"
           /\ Reachable(pass[t].src.path)
           /\ pass'[t].pc = "done")
          => /\ SinkLine(pass'[t].pc, pass[t].kind) = "Indexing complete."
             /\ Len(RowsOfPass(dbRows', t)) = ImageCount(pass[t].src)]_vars

\* C14: a step of a find_best_match call, whatever it returns or raises,
\* leaves the records of the index, the existence of the store and the
\* persisted source selection as they were.
C14_MatchOnlyReads ==
    [][(mpc' # mpc) => UNCHANGED <<dbRows, dbExists, dbTable, settings>>]_vars

\* pass t runs init_db() in this step: the thread of the GUI at the head of
\* index_source, the script at the head of main
InitDbStep(t) ==
    \/ pass[t].pc = "start" /\ pass'[t].pc = "inited"
    \/ pass[t].pc = "free" /\ pass'[t].pc = "dialog"

\* C15: init_db() leaves every committed record, and the uncommitted
\* records of the passes under way, as they were, and leaves a store with
\* the images table; on a missing store that store is empty.
C15_InitDbIdempotent ==
    [][\A t \in Passes :
          InitDbStep(t) =>
             /\ dbRows' = dbRows
             /\ dbExists' /\ dbTable'
             /\ ~dbExists => dbRows' = <<>>
             /\ \A u \in Passes \ {t} : pass'[u] = pass[u]]_vars

\* C15 witness: the script has run init_db() on the store that holds the
\* index of the previous run, beside a pass that has inserted a record;
\* the index is as the previous run left it.
C15_Witness ==
    \E t, u \in Passes :
        /\ pass[t].pc = "dialog"
        /\ pass[u].pc = "loop" /\ pass[u].kind = "script" /\ pass[u].ins # <<>>
        /\ dbRows = PreviousIndex(SourceOf(ZipPath))

\* C16: the distance find_best_match returns with a record is between 0 and
\* 64, and the initial distance 10**9 is returned with None and only with
\* None.
C16_DistanceInRange ==
    Matched =>
        /\ mResult.best # NoMatch => (0 <= mResult.best_dist /\ mResult.best_dist <= 64)
        /\ mResult.best_dist = 1000000000 => mResult.best = NoMatch
        /\ mResult.best = NoMatch => mResult.best_dist = 1000000000

\* C16 witness: a record is returned at a distance that is not 0, from an
\* index that holds an over-wide fingerprint as well.
C16_Witness ==
    /\ Matched
    /\ mResult.best # NoMatch
    /\ mResult.best_dist > 0
    /\ \E j \in 1..Len(mRows) : mRows[j].file_name = "long1.png"

\* C17: a cancelled change_source leaves the source selection in memory and
\* in the settings, the store and its records, and the indexing passes as
\* they were: nothing is cleared and no thread is started.
C17_CancelChangesNothing ==
    [][(console' = "Change source cancelled." /\ console' # console)
          => UNCHANGED <<source, settings, dbExists, dbTable, dbRows, pass>>]_vars

\* C17 witness: change_source was cancelled while the index of the previous
\* run was in the store; selection and index are there.
C17_Witness ==
    /\ console = "Change source cancelled."
    /\ source = SourceOf(ZipPath) /\ settings = SourceOf(ZipPath)
    /\ dbExists /\ dbRows = PreviousIndex(SourceOf(ZipPath))
    /\ pass = [t \in Passes |-> FreePass]

\* C18: at most one schedule_refresh timer is pending, whatever the
\* sequence of toggle_auto calls and timer firings.
C18_OneTimerPending ==
    timers <= 1

\* C19: on every pass and entry, the loop bodies of index_zip.index_zip
\* and index_zip.index_folder insert what the loop body of
\* wallpaper_tray_app.index_source inserts, so that passes from the same
\* store over the same source leave the same records; and
\* find_wallpaper.find_best_match returns, on the rows and the reference of
\* every call, the (match, distance) of wallpaper_tray_app.find_best_match.
C19_EntryPointsAgree ==
    /\ \A t \in Passes :
          (pass[t].pc = "loop" /\ pass[t].i <= Len(Entries(pass[t].src.path))) =>
              LET e == Entries(pass[t].src.path)[pass[t].i]
              IN  InsertedAfter(t, e) =
                      IF pass[t].src.type = "zip" THEN index_zip(t, e) ELSE index_folder(t, e)
    /\ Matched =>
          FindWallpaperBest(mRows, mWall) = [best |-> mResult.best, best_dist |-> mResult.best_dist]

\* C19 witness: the script stands before IMG/2.JPG of the mixed ZIP, and a
\* call has matched on an index that holds a malformed fingerprint.
C19_Witness ==
    /\ \E t \in Passes :
          /\ pass[t].pc = "loop" /\ pass[t].kind = "script"
          /\ pass[t].src = SourceOf(MixedZipPath)
          /\ pass[t].i = 2
    /\ Matched
    /\ mResult.best # NoMatch
    /\ \E j \in 1..Len(mRows) : mRows[j].file_name = "long1.png"

====
